---- MODULE Spec2Model ----
(***************************************************************************)
(* A model of the FPL asset value pipeline: the fixture difficulty         *)
(* aggregator (src/src/fdr_value_model.py), the clean sheet points         *)
(* predictor (src/src/clean_sheet_points_model.py) and the per-position    *)
(* asset value calculator (src/src/asset_value_model.py).                  *)
(*                                                                         *)
(* Numbers.  The program computes in binary floating point; the model      *)
(* computes in fixed point on integers:                                    *)
(*   ratings                           integers (the CSV's 1..5 scale)     *)
(*   weights, raw weighted sums        1/100                               *)
(*   z-scores                          1/1000                              *)
(*   unrounded FDR scores              1/10000                             *)
(*   a table's "FDR value" column      1/100  (after DataFrame.round(2))   *)
(*   prices                            1/10                                *)
(*   per-match statistics              1/100                               *)
(*   xPts, value                       1/1000                              *)
(* NaN is a value of its own.  math.log, the square root and the fourth    *)
(* root are library functions; the model holds ln as a table of its        *)
(* values and computes the roots by integer bisection.                     *)
(***************************************************************************)
EXTENDS Integers, Sequences, FiniteSets, TLC

VARIABLES
    gw,             \* System.gw: the current gameweek the calls are made for
    wc_gw,          \* System.wc_gw: the planned Wildcard gameweek (0: none)
    fh_gw,          \* System.fh_gw: the planned Free Hit gameweek (0: none)
    df,             \* FDRValueModel.df: the fixture table of the aggregator
    fdr_call,       \* the last get_fdr_value call on the aggregator
    fdr_lookup,     \* the get_fdr_value_by_team call made last, if no
                    \* get_fdr_value call followed it
    goalkeepers,    \* AssetValueModel.goalkeepers
    defenders,      \* AssetValueModel.defenders
    midfielders,    \* AssetValueModel.midfielders
    forwards,       \* AssetValueModel.forwards
    cs_gk_def,      \* AssetValueModel.clean_sheet_points_model_gk_def
    cs_mid,         \* AssetValueModel.clean_sheet_points_model_mid
    avm_call,       \* the last per-position call and how it ended
    cs_call,        \* the last call on a CleanSheetPointsModel made directly
    cs_returned,    \* what the predict calls made directly have returned
    cs_explicit,    \* the predictors train_model was called on directly
    is_running,     \* System.is_running
    sys_df,         \* System.fdr_value_model.df: the fixture table of the
                    \* System's own aggregator
    sys_call,       \* the last System operation and how it ended
    defcon_in,      \* a position and two defensive-contribution values
    defcon_out      \* the defensive-contribution terms computed for them

vars == <<gw, wc_gw, fh_gw, df, fdr_call, fdr_lookup, goalkeepers, defenders, midfielders,
          forwards, cs_gk_def, cs_mid, avm_call, cs_call, cs_returned, cs_explicit,
          is_running, sys_df, sys_call, defcon_in, defcon_out>>

cs_vars == <<cs_call, cs_returned, cs_explicit>>

sys_vars == <<is_running, sys_df, sys_call>>

defcon_vars == <<defcon_in, defcon_out>>

avm_vars == <<goalkeepers, defenders, midfielders, forwards, cs_gk_def, cs_mid,
              avm_call>>

(***************************************************************************)
(* Bounds of the model.                                                    *)
(***************************************************************************)
\* the number of gameweek columns of the longer fixture tables
NumGW == 12
\* ratings are drawn from 1..MaxRating
MaxRating == 3
\* the current gameweek is drawn from -BelowGw..MaxGw
BelowGw == 1
MaxGw == 3
\* chip gameweeks are drawn from 0..MaxChip
MaxChip == 4

(***************************************************************************)
(* Numeric helpers.                                                        *)
(***************************************************************************)
\* the value the program gets from 0/0 in the z-score division
NaN == -999999

IsNaN(x) == x = NaN

\* a / b rounded to the nearest integer, halves away from zero (b > 0)
RoundDiv(a, b) ==
    IF a >= 0 THEN (2 * a + b) \div (2 * b)
    ELSE -((2 * (-a) + b) \div (2 * b))

RECURSIVE SqrtSearch(_, _, _)
SqrtSearch(x, lo, hi) ==
    IF lo >= hi THEN lo
    ELSE LET mid == (lo + hi + 1) \div 2
         IN  IF mid * mid <= x THEN SqrtSearch(x, mid, hi)
             ELSE SqrtSearch(x, lo, mid - 1)

\* the integer square root of x >= 0
Isqrt(x) == SqrtSearch(x, 0, 46340)

RECURSIVE SumSeq(_)
SumSeq(s) == IF s = <<>> THEN 0 ELSE Head(s) + SumSeq(Tail(s))

\* 100 * ln(n) for n in 1..40, rounded
LnTable ==
    << 0, 69, 110, 139, 161, 179, 195, 208, 220, 230,
       240, 248, 256, 264, 271, 277, 283, 289, 294, 300,
       304, 309, 314, 318, 322, 326, 330, 333, 337, 340,
       343, 347, 350, 353, 356, 358, 361, 364, 366, 369 >>

\* math.log(n): defined for n >= 1 only (math.log raises ValueError otherwise)
Ln(n) == LnTable[n]

\* numpy's round: x / unit rounded to the nearest integer, halves to even
RoundHalfEven(x, unit) ==
    LET q == x \div unit
        r == x % unit
    IN  IF 2 * r < unit THEN q
        ELSE IF 2 * r > unit THEN q + 1
        ELSE IF q % 2 = 0 THEN q ELSE q + 1

\* the permutations of 1..n
Perms(n) == { p \in [1..n -> 1..n] : \A i, j \in 1..n : i # j => p[i] # p[j] }

(***************************************************************************)
(* FDRValueModel (src/src/fdr_value_model.py).                             *)
(*                                                                         *)
(* df is [rows, has_fdr]: rows is the sequence of the table's rows in      *)
(* their current order, each [team, gws, fdr]; gws is the row's ratings,   *)
(* one per "gw<N>" column; has_fdr says whether the "FDR value" column     *)
(* exists (a row's fdr is 0 while it does not).                            *)
(***************************************************************************)

\* gws[idx] of a Python list of n elements: whether the index is valid
ValidIndex(n, idx) == -n <= idx /\ idx <= n - 1

\* the 1-based column a valid Python index reads: negative indices count
\* from the end of the list
ColumnOf(n, idx) == IF idx >= 0 THEN idx + 1 ELSE n + idx + 1

\* the argument of the logarithm in the no-wildcard branch: -i + 8
LogArgument(i) == 8 - i

\* the weight of the first six gameweeks of the window: math.log(-i + 8)
LogWeight(i) == Ln(LogArgument(i))

\* the weight of the last four gameweeks of the window: -(i/25) + 0.5
LinWeight(i) == 50 - 4 * i

\* WildcardArgument without the + 1: the last gameweek before the wildcard
\* gets the weight ln(1) = 0
WildcardArgumentNoOffset(i, wc) == wc - i

\* the argument of the logarithm in the wildcard branch: -i + wc_gw + 1
WildcardArgument(i, wc) == wc - i + 1

\* the weight of the wildcard branch: math.log(-i + wc_gw + 1)
WildcardWeight(i, wc) == Ln(WildcardArgument(i, wc))

\* The inner loop of the no-wildcard branch from gameweek i on, for one row:
\* [err, sum, cols], cols being the columns read so far.
RECURSIVE NoWildcardLoop(_, _, _, _, _, _)
NoWildcardLoop(ratings, g, fh, i, acc, cols) ==
    IF i >= g + 10 THEN [err |-> "none", sum |-> acc, cols |-> cols]
    ELSE IF i = fh THEN NoWildcardLoop(ratings, g, fh, i + 1, acc, cols)
    ELSE IF ~ValidIndex(Len(ratings), i - 1)
         THEN [err |-> "IndexError", sum |-> acc, cols |-> cols]
    ELSE LET c == ColumnOf(Len(ratings), i - 1)
         IN  IF i < g + 6
             THEN IF LogArgument(i) <= 0
                  THEN [err |-> "ValueError", sum |-> acc,
                        cols |-> cols \cup {c}]
                  ELSE NoWildcardLoop(ratings, g, fh, i + 1,
                                      acc + ratings[c] * LogWeight(i),
                                      cols \cup {c})
             ELSE NoWildcardLoop(ratings, g, fh, i + 1,
                                 acc + ratings[c] * LinWeight(i),
                                 cols \cup {c})

\* The inner loop of the wildcard branch from gameweek i on, for one row.
RECURSIVE WildcardLoop(_, _, _, _, _, _, _)
WildcardLoop(ratings, g, wc, fh, i, acc, cols) ==
    IF i >= wc THEN [err |-> "none", sum |-> acc, cols |-> cols]
    ELSE IF i = fh THEN WildcardLoop(ratings, g, wc, fh, i + 1, acc, cols)
    ELSE IF ~ValidIndex(Len(ratings), i - 1)
         THEN [err |-> "IndexError", sum |-> acc, cols |-> cols]
    ELSE LET c == ColumnOf(Len(ratings), i - 1)
         IN  WildcardLoop(ratings, g, wc, fh, i + 1,
                          acc + ratings[c] * WildcardWeight(i, wc),
                          cols \cup {c})

\* one row's raw weighted sum (the body of the loop over self.df.iterrows())
RowSum(ratings, g, wc, fh) ==
    IF wc = 0 THEN NoWildcardLoop(ratings, g, fh, g, 0, {})
    ELSE WildcardLoop(ratings, g, wc, fh, g, 0, {})

\* the fixed-point scale the division by sigma is carried out at
SigmaScale(q) ==
    IF q <= 2000 THEN 1000
    ELSE IF q <= 200000 THEN 100
    ELSE IF q <= 20000000 THEN 10
    ELSE 1

\* d[i] * sqrt(n) / sqrt(q) in 1/1000, sn being 1000 * sqrt(n)
DivideBySigma(d, q, f, sn) ==
    IF q = 0 THEN [i \in 1..Len(d) |-> NaN]
    ELSE [i \in 1..Len(d) |-> RoundDiv(d[i] * sn * f, Isqrt(q * f * f))]

Deviations(array, n, s) == [i \in 1..n |-> n * array[i] - s]

SumOfSquares(d) == SumSeq([i \in 1..Len(d) |-> d[i] * d[i]])

ZscoreOfDeviations(d, q) ==
    DivideBySigma(d, q, SigmaScale(q), Isqrt(Len(d) * 1000000))

ZscoreOfArray(d) == ZscoreOfDeviations(d, SumOfSquares(d))

\* FDRValueModel.zscore_normalisation: (array - mu) / sigma, in 1/1000.
\* With d[i] = n*x[i] - sum(x) and q = sum(d[i]^2): mu = sum(x)/n,
\* sigma = sqrt(q/n)/n, and (x[i] - mu)/sigma = d[i]*sqrt(n)/sqrt(q).
\* A zero sigma (all inputs equal) makes every entry 0/0 = NaN.
ZscoreNormalisation(array) ==
    ZscoreOfArray(Deviations(array, Len(array), SumSeq(array)))

\* Rescale without the negation: harder fixtures score higher
RescaleNotNegated(z) == IF IsNaN(z) THEN NaN ELSE 50000 + 5 * z

\* fdr_results = -(fdr_results / 2) + 5, in 1/10000
Rescale(z) == IF IsNaN(z) THEN NaN ELSE 50000 - 5 * z

\* DataFrame.round(2) of one unrounded score: 1/10000 to 1/100
Round2Score(x) == IF IsNaN(x) THEN NaN ELSE RoundHalfEven(x, 100)

\* The row orders sort_values(by=..., ascending=False) may leave, given the
\* rows' keys in their order before the sort: descending, NaN last.  The
\* default kind is quicksort, which is not stable: rows with equal keys
\* may come out in any order.  NaN rows keep their relative order (pandas
\* appends them after the sort).
SortOrders(keys) ==
    LET n == Len(keys)
    IN  { p \in Perms(n) :
            \A i, j \in 1..n : i < j =>
                LET a == keys[p[i]]
                    b == keys[p[j]]
                IN  IF IsNaN(a) THEN IsNaN(b) /\ p[i] < p[j]
                    ELSE IsNaN(b) \/ a >= b }

\* lines 70-71: the raw sums normalised and rescaled
ScoresOfSums(sums) ==
    LET z == ZscoreNormalisation(sums)
    IN  [i \in 1..Len(sums) |-> Rescale(z[i])]

\* The unrounded scores of the table's rows, in row order, or the error the
\* computation raises: the first row's, all rows having the same columns.
ResultsOfRows(rs) ==
    IF rs[1].err # "none"
    THEN [err |-> rs[1].err, cols |-> rs[1].cols, scores |-> <<>>]
    ELSE [err |-> "none", cols |-> rs[1].cols,
          scores |-> ScoresOfSums([i \in 1..Len(rs) |-> rs[i].sum])]

FdrResults(d, g, wc, fh) ==
    ResultsOfRows([i \in 1..Len(d.rows) |-> RowSum(d.rows[i].gws, g, wc, fh)])

\* SortedAndRounded with the scores attached by position after the rows
\* were reordered
SortedAndRoundedMisaligned(d, scores, p) ==
    [rows |-> [i \in 1..Len(d.rows) |->
                 [d.rows[p[i]] EXCEPT !.fdr = Round2Score(scores[i])]],
     has_fdr |-> TRUE]

\* lines 72-74: the scores attached, the rows sorted by them (order p), the
\* column rounded
SortedAndRounded(d, scores, p) ==
    [rows |-> [i \in 1..Len(d.rows) |->
                 [d.rows[p[i]] EXCEPT !.fdr = Round2Score(scores[p[i]])]],
     has_fdr |-> TRUE]

OutcomesOfResults(d, r) ==
    IF r.err # "none"
    THEN { [err |-> r.err, cols |-> r.cols, df |-> d] }
    ELSE { [err |-> "none", cols |-> r.cols,
            df |-> SortedAndRounded(d, r.scores, p)] :
           p \in SortOrders(r.scores) }

\* FDRValueModel.get_fdr_value: the outcomes [err, cols, df] of a call on a
\* table d.  An error leaves the table as it was; otherwise the scores
\* are attached, the rows sorted by them and the column rounded.
GetFdrValue(d, g, wc, fh) == OutcomesOfResults(d, FdrResults(d, g, wc, fh))

\* GetFdrValueByTeam without the selection by team: values[0] of the column
GetFdrValueByTeamFirstRow(d, team) ==
    IF ~d.has_fdr THEN [err |-> "KeyError", value |-> 0]
    ELSE [err |-> "none", value |-> d.rows[1].fdr]

\* FDRValueModel.get_fdr_value_by_team: [err, value].  The column lookup
\* fails first (KeyError), then values[0] of an empty selection (IndexError).
GetFdrValueByTeam(d, team) ==
    LET hits == { i \in 1..Len(d.rows) : d.rows[i].team = team }
    IN  IF ~d.has_fdr THEN [err |-> "KeyError", value |-> 0]
        ELSE IF hits = {} THEN [err |-> "IndexError", value |-> 0]
        ELSE [err |-> "none",
              value |-> d.rows[CHOOSE i \in hits : \A j \in hits : i <= j].fdr]

(***************************************************************************)
(* The fixture tables the aggregator is constructed with.                  *)
(***************************************************************************)
\* a row whose every rating is r
Flat(r, n) == [k \in 1..n |-> r]

\* a row whose ratings cycle through 1..MaxRating, starting after s
Cycle(s, n) == [k \in 1..n |-> 1 + ((k + s) % MaxRating)]

\* a row whose ratings alternate between 2 and 1
Alternate(n) == [k \in 1..n |-> 1 + (k % 2)]

RatingRows(n) == { Flat(1, n), Flat(MaxRating, n), Cycle(0, n), Alternate(n) }

FixtureRow(team, ratings) == [team |-> team, gws |-> ratings, fdr |-> 0]

\* two teams over a ten-gameweek table, three over a NumGW-gameweek one
FixtureTables ==
    { [rows |-> <<FixtureRow("A", a), FixtureRow("B", b)>>, has_fdr |-> FALSE] :
        a \in RatingRows(10), b \in RatingRows(10) }
    \cup
    { [rows |-> <<FixtureRow("A", a), FixtureRow("B", b),
                 FixtureRow("C", Cycle(1, NumGW))>>, has_fdr |-> FALSE] :
        a \in RatingRows(NumGW), b \in RatingRows(NumGW) }

TeamNames == {"A", "B", "C"}

GwInputs == (0 - BelowGw)..MaxGw

\* System.get_chip_gw: the answers the prompt accepts for a chip, the
\* current gameweek being g
ChipAccepted(g, chip) ==
    \/ 1 <= g /\ g <= 19 /\ (IF g > 2 THEN g ELSE 2) <= chip /\ chip <= 19
    \/ 20 <= g /\ g <= 38 /\ (IF g > 20 THEN g ELSE 20) <= chip /\ chip <= 38
    \/ chip = 0

ChipInputs == 0..MaxChip

NoCall == [op |-> "none", gw |-> 0, wc |-> 0, fh |-> 0, err |-> "none",
           cols |-> {}, assigned |-> {}]

NoLookup == [op |-> "none", team |-> "", err |-> "none", value |-> 0]

NoCsCall == [op |-> "none", inst |-> "", x |-> 0, value |-> 0]

NoSysCall == [op |-> "none", err |-> "none"]

\* no CleanSheetPointsModel has been called directly
CsIdle == cs_call = NoCsCall /\ cs_returned = {} /\ cs_explicit = {}

\* the System has not been run, and its own aggregator's table is not looked at
SysIdle ==
    /\ is_running = FALSE
    /\ sys_df = [rows |-> <<>>, has_fdr |-> FALSE]
    /\ sys_call = NoSysCall

\* no defensive-contribution term is computed on its own
DefconIdle == defcon_in = [kind |-> "none", d1 |-> 0, d2 |-> 0] /\ defcon_out = <<>>

(***************************************************************************)
(* The aggregator on its own: an FDRValueModel constructed with a fixture  *)
(* table, and calls of its two methods.  The gameweek is any integer       *)
(* System.get_gw_number returns; the chip gameweeks are answers            *)
(* System.get_chip_gw accepts for it.                                      *)
(***************************************************************************)
InitFdr ==
    /\ gw \in GwInputs
    /\ wc_gw \in { c \in ChipInputs : ChipAccepted(gw, c) }
    /\ fh_gw \in { c \in ChipInputs : ChipAccepted(gw, c) }
    /\ df \in FixtureTables
    /\ fdr_call = NoCall
    /\ fdr_lookup = NoLookup
    /\ goalkeepers = <<>>
    /\ defenders = <<>>
    /\ midfielders = <<>>
    /\ forwards = <<>>
    /\ cs_gk_def = [is_trained |-> FALSE]
    /\ cs_mid = [is_trained |-> FALSE]
    /\ avm_call = [op |-> "none"]
    /\ CsIdle
    /\ SysIdle
    /\ DefconIdle

\* what a get_fdr_value call leaves in fdr_call: its arguments, how it ended,
\* the columns it read, and the (team, score) pairs the last completed call
\* assigned
CallRecordAfter(prev, o, g, wc, fh) ==
    [op |-> "get_fdr_value", gw |-> g, wc |-> wc, fh |-> fh, err |-> o.err,
     cols |-> o.cols,
     assigned |-> IF o.err = "none"
                  THEN { <<o.df.rows[i].team, o.df.rows[i].fdr>> :
                           i \in 1..Len(o.df.rows) }
                  ELSE prev.assigned]

CallRecord(o, g, wc, fh) == CallRecordAfter(fdr_call, o, g, wc, fh)

\* self.fdr_value_model.get_fdr_value(gw, wc_gw, fh_gw)
FdrCompute ==
    /\ \E o \in GetFdrValue(df, gw, wc_gw, fh_gw) :
          /\ df' = o.df
          /\ fdr_call' = CallRecord(o, gw, wc_gw, fh_gw)
    /\ fdr_lookup' = NoLookup
    /\ UNCHANGED <<gw, wc_gw, fh_gw, avm_vars, cs_vars, sys_vars, defcon_vars>>

\* get_fdr_value(gw, 0, 0): the same instance asked with no chip planned
FdrComputeNoChips ==
    /\ \E o \in GetFdrValue(df, gw, 0, 0) :
          /\ df' = o.df
          /\ fdr_call' = CallRecord(o, gw, 0, 0)
    /\ fdr_lookup' = NoLookup
    /\ UNCHANGED <<gw, wc_gw, fh_gw, avm_vars, cs_vars, sys_vars, defcon_vars>>

\* get_fdr_value_by_team(team)
FdrLookup ==
    /\ \E team \in TeamNames :
          LET r == GetFdrValueByTeam(df, team)
          IN  fdr_lookup' = [op |-> "get_fdr_value_by_team", team |-> team,
                             err |-> r.err, value |-> r.value]
    /\ UNCHANGED <<gw, wc_gw, fh_gw, df, fdr_call, avm_vars, cs_vars, sys_vars, defcon_vars>>

NextFdr == FdrCompute \/ FdrComputeNoChips \/ FdrLookup

SpecFdr == InitFdr /\ [][NextFdr]_vars

(***************************************************************************)
(* CleanSheetPointsModel (src/src/clean_sheet_points_model.py).            *)
(*                                                                         *)
(* A predictor is [x_data, y_data, is_trained, fits, scaler, sgdr]: the    *)
(* training data (1/100), the trained flag, the number of train_model      *)
(* runs, the fitted StandardScaler [mean, scale] (1/100) and the fitted    *)
(* regressor [coef, intercept] (1/1000).  SGDRegressor.fit is a library    *)
(* call with a fixed seed: a deterministic function of the data, modelled  *)
(* by the least-squares line it approximates.                              *)
(***************************************************************************)
\* CleanSheetPointsModel.__init__
NewPredictor(x_data, y_data) ==
    [x_data |-> x_data, y_data |-> y_data, is_trained |-> FALSE, fits |-> 0,
     scaler |-> [mean |-> 0, scale |-> 1],
     sgdr |-> [coef |-> 0, intercept |-> 0]]

\* StandardScaler.fit: the mean and the standard deviation of the feature
\* (a zero deviation is replaced by 1)
FitScaler(x) ==
    LET n == Len(x)
        mean == RoundDiv(SumSeq(x), n)
        var == RoundDiv(SumSeq([i \in 1..n |-> (x[i] - mean) * (x[i] - mean)]), n)
        sd == Isqrt(var)
    IN  [mean |-> mean, scale |-> IF sd = 0 THEN 1 ELSE sd]

\* SGDRegressor.fit on the standardised feature
FitRegressor(x, y, sc) ==
    LET n == Len(x)
        ybar == RoundDiv(SumSeq(y), n)
        cov == SumSeq([i \in 1..n |-> (x[i] - sc.mean) * (y[i] - ybar)])
    IN  [coef |-> RoundDiv(10 * cov, n * sc.scale),
         intercept |-> RoundDiv(10 * SumSeq(y), n)]

FittedWith(m, sc) ==
    [m EXCEPT !.scaler = sc, !.sgdr = FitRegressor(m.x_data, m.y_data, sc),
              !.is_trained = TRUE, !.fits = @ + 1]

\* train_model with a regressor of no fixed seed: every fit shuffles the
\* data its own way and ends at coefficients of its own
TrainModelUnseeded(m) ==
    [FittedWith(m, FitScaler(m.x_data)) EXCEPT !.sgdr.intercept = @ + m.fits]

\* CleanSheetPointsModel.train_model
TrainModel(m) == FittedWith(m, FitScaler(m.x_data))

\* predict training the model on every call
EnsureTrainedEveryCall(m) == TrainModel(m)

\* lines 70-71 of predict: the model trained if it was not
EnsureTrained(m) == IF m.is_trained THEN m ELSE TrainModel(m)

\* lines 73-75 of predict: the prediction of a trained model, in 1/1000
PredictTrained(m, xgcp90) ==
    m.sgdr.intercept
        + RoundDiv(m.sgdr.coef * RoundDiv((xgcp90 - m.scaler.mean) * 1000,
                                          m.scaler.scale),
                   1000)

\* CleanSheetPointsModel.predict: [model, value]
Predict(m, xgcp90) ==
    [model |-> EnsureTrained(m), value |-> PredictTrained(EnsureTrained(m), xgcp90)]

(***************************************************************************)
(* AssetValueModel (src/src/asset_value_model.py).                         *)
(*                                                                         *)
(* A position table is [rows, has_value]: rows in their current order,     *)
(* each [player, team, price, xg, xa, xgc, saves, bps, defcon, yc, xpts,   *)
(* fdr, value]; has_value says whether the 'xPts', 'FDR value' and 'value' *)
(* columns exist (they are 0 while they do not).                           *)
(***************************************************************************)
\* 1000000 * t^1.2 for t = d - low in 1/100, at the values the tables and the
\* grid of the defensive-contribution inputs hold
Pow12(t) ==
    CASE t = 0 -> 0   [] t = 1 -> 3981   [] t = 100 -> 1000000
      [] t = 200 -> 2297397   [] t = 300 -> 3737193   [] t = 400 -> 5278032
      [] t = 500 -> 6898648   [] t = 600 -> 8585814   [] t = 700 -> 10330412
      [] t = 733 -> 10917539   [] t = 800 -> 12125733   [] t = 832 -> 12710071
      [] t = 833 -> 12728405   [] t = 900 -> 13966610   [] t = 999 -> 15829915
      [] t = 1000 -> 15848932

\* 1000 * price^0.25, the price in 1/10
Pow025(price) == Isqrt(Isqrt(price * 10000000) * 100)

\* the defensive-contribution term of the defender formula (lines 125-130),
\* in 1/1000000, of a defcon in 1/100; the division by 6.38 is that of 50
\* times the power by 319
DefconTermDef(d) ==
    IF d < 500 THEN 10 * d
    ELSE IF d <= 1333 THEN RoundDiv(Pow12(d - 500) * 50, 319) + 5000
    ELSE 2000000

\* the defensive-contribution term of the midfielder and forward formulas
\* (lines 173-178 and 219-224), in 1/1000000
DefconTermMidFwd(d) ==
    IF d < 600 THEN 10 * d
    ELSE IF d <= 1600 THEN RoundDiv(Pow12(d - 600), 8) + 6000
    ELSE 2000000

\* a term in 1/1000000 as it enters the expected points, in 1/1000
TermInMilli(term) == RoundDiv(term, 1000)

\* line 82: 2 + cs_pts + saves / 3 + bps - yc
XptsGk(row, cs) ==
    2000 + cs + RoundDiv(row.saves * 10, 3) + row.bps * 10 - row.yc * 10

\* lines 125-130
XptsDef(row, cs) ==
    2000 + row.xg * 60 + row.xa * 30 + cs + row.bps * 10
        + TermInMilli(DefconTermDef(row.defcon)) - row.yc * 10

\* lines 173-178
XptsMid(row, cs) ==
    2000 + row.xg * 50 + row.xa * 30 + cs + row.bps * 10
        + TermInMilli(DefconTermMidFwd(row.defcon)) - row.yc * 10

\* lines 219-224
XptsFwd(row) ==
    2000 + row.xg * 40 + row.xa * 30 + row.bps * 10
        + TermInMilli(DefconTermMidFwd(row.defcon)) - row.yc * 10

\* the expected points of a row of the position table of a kind, m being
\* the trained predictor of the kind
Xpts(kind, row, m) ==
    CASE kind = "gk" -> XptsGk(row, PredictTrained(m, row.xgc))
      [] kind = "def" -> XptsDef(row, PredictTrained(m, row.xgc))
      [] kind = "mid" -> XptsMid(row, PredictTrained(m, row.xgc))
      [] kind = "fwd" -> XptsFwd(row)

\* 12 * xpts + 8 * fdr_value, in 1/1000
Numerator(xpts, fdr) == 12 * xpts + 8 * fdr

\* AssetValue with the root of the price multiplied, not divided by
AssetValueTimesRoot(xpts, fdr, price) ==
    IF IsNaN(fdr) THEN NaN
    ELSE RoundDiv(Numerator(xpts, fdr) * Pow025(price), 1000)

\* asset_value = (12 * xpts + 8 * fdr_value) / price ** 0.25, in 1/1000
AssetValue(xpts, fdr, price) ==
    IF IsNaN(fdr) THEN NaN
    ELSE RoundDiv(Numerator(xpts, fdr) * 1000, Pow025(price))

\* a value of an "FDR value" column (1/100) in 1/1000
FdrInMilli(v) == IF IsNaN(v) THEN NaN ELSE 10 * v

\* DataFrame.round(2) of a value in 1/1000: the nearest multiple of 0.01
Round2Milli(x) == IF IsNaN(x) THEN NaN ELSE 10 * RoundHalfEven(x, 10)

\* the table with every numeric column of every row rounded to 2 decimals
RoundedTable(t) ==
    [t EXCEPT !.rows = [i \in 1..Len(t.rows) |->
        [t.rows[i] EXCEPT !.xpts = Round2Milli(@), !.fdr = Round2Milli(@),
                          !.value = Round2Milli(@)]]]

\* the body of the loop over the rows, the aggregator's table being d after
\* its recomputation: the row with its three results
RowResult(kind, row, m, d) ==
    LET xpts == Xpts(kind, row, m)
        fdr == FdrInMilli(GetFdrValueByTeam(d, row.team).value)
    IN  [row EXCEPT !.xpts = xpts, !.fdr = fdr,
                    !.value = AssetValue(xpts, fdr, row.price)]

\* lines 270-273 of update_df: the three columns assigned by position and
\* the table sorted by value in place, in the order p.  Line 274, df.round(2),
\* returns a rounded copy that is dropped: the table itself is not rounded.
UpdatedTable(rows, p) ==
    [rows |-> [i \in 1..Len(rows) |-> rows[p[i]]], has_value |-> TRUE]

\* AssetValueModel.update_df: the tables it may leave
UpdateDf(rows) ==
    { UpdatedTable(rows, p) :
        p \in SortOrders([i \in 1..Len(rows) |-> rows[i].value]) }

\* the first row whose team the aggregator's table does not hold, or 0
FirstAbsent(t, d) ==
    LET teams == { d.rows[i].team : i \in 1..Len(d.rows) }
        bad == { i \in 1..Len(t.rows) : t.rows[i].team \notin teams }
    IN  IF bad = {} THEN 0 ELSE CHOOSE i \in bad : \A j \in bad : i <= j

\* AfterLookup writing, when a lookup raises, the three columns of the rows
\* computed before the failing one
AfterLookupPartial(kind, t, m, o, absent) ==
    IF absent # 0
    THEN { [err |-> "IndexError",
            table |-> [rows |-> [i \in 1..Len(t.rows) |->
                                   IF i < absent
                                   THEN RowResult(kind, t.rows[i], m, o.df)
                                   ELSE t.rows[i]],
                       has_value |-> TRUE],
            model |-> m, fdr |-> o, team |-> t.rows[absent].team] }
    ELSE { [err |-> "none", table |-> u, model |-> m, fdr |-> o,
            team |-> t.rows[Len(t.rows)].team] :
           u \in UpdateDf([i \in 1..Len(t.rows) |->
                             RowResult(kind, t.rows[i], m, o.df)]) }

\* what a per-position call leaves when the aggregator's recomputation
\* completed with outcome o: the lookup of the first absent team raises
\* IndexError and the position table stays as it was
AfterLookup(kind, t, m, o, absent) ==
    IF absent # 0
    THEN { [err |-> "IndexError", table |-> t, model |-> m, fdr |-> o,
            team |-> t.rows[absent].team] }
    ELSE { [err |-> "none", table |-> u, model |-> m, fdr |-> o,
            team |-> t.rows[Len(t.rows)].team] :
           u \in UpdateDf([i \in 1..Len(t.rows) |->
                             RowResult(kind, t.rows[i], m, o.df)]) }

\* a per-position call, m being the kind's predictor after the first row's
\* predict and r the aggregator's results: an error of the recomputation
\* propagates from the first row
AfterPredict(kind, t, m, d, r) ==
    IF r.err # "none"
    THEN { [err |-> r.err, table |-> t, model |-> m,
            fdr |-> [err |-> r.err, cols |-> r.cols, df |-> d], team |-> ""] }
    ELSE UNION { AfterLookup(kind, t, m, o, FirstAbsent(t, d)) :
                 o \in OutcomesOfResults(d, r) }

\* GetAssetValue looking the teams up in the aggregator's table as it is,
\* without the recomputation, once the table has its "FDR value" column
GetAssetValueNoRecompute(kind, t, m, d, g, wc, fh) ==
    IF d.has_fdr
    THEN AfterLookup(kind, t, IF kind = "fwd" THEN m ELSE EnsureTrained(m),
                     [err |-> "none", cols |-> {}, df |-> d], FirstAbsent(t, d))
    ELSE AfterPredict(kind, t, IF kind = "fwd" THEN m ELSE EnsureTrained(m), d,
                      FdrResults(d, g, wc, fh))

\* AssetValueModel.get_asset_value_gk / _def / _mid / _fwd: the outcomes
\* [err, table, model, fdr, team] of a call on the position table t with the
\* predictor m and the aggregator's table d (team: the last team looked up).
\* The code recomputes the aggregator's table before the lookup of every row,
\* with the same arguments: every recomputation attaches the same scores and
\* leaves the rows in one of the same orders, so the recomputations of a call
\* are taken as one.
GetAssetValue(kind, t, m, d, g, wc, fh) ==
    AfterPredict(kind, t, IF kind = "fwd" THEN m ELSE EnsureTrained(m), d,
                 FdrResults(d, g, wc, fh))

(***************************************************************************)
(* The data the calculator is constructed with.                            *)
(***************************************************************************)
\* the training data: xGCp90 and the two targets, one entry per team
TrainingXgc == <<100, 150, 200>>
TrainingDefensivePoints == <<200, 120, 40>>
TrainingCleanSheets == <<40, 25, 10>>

PlayerRow(player, team, price, xgc, saves, defcon, yc) ==
    [player |-> player, team |-> team, price |-> price, xg |-> 10, xa |-> 20,
     xgc |-> xgc, saves |-> saves, bps |-> 150, defcon |-> defcon, yc |-> yc,
     xpts |-> 0, fdr |-> 0, value |-> 0]

PositionTable(rows) == [rows |-> rows, has_value |-> FALSE]

\* plain rows: two that differ in price only, and a third
PlainRows ==
    << PlayerRow("p1", "A", 40, 125, 300, 400, 10),
       PlayerRow("p2", "A", 80, 125, 300, 400, 10),
       PlayerRow("p3", "B", 55, 150, 250, 900, 20) >>

\* rows of equal value: two players of one team with the same statistics
\* and price, and a third
TwinRows ==
    << PlayerRow("p1", "C", 45, 175, 100, 1333, 0),
       PlayerRow("p2", "B", 60, 100, 400, 1600, 5),
       PlayerRow("p3", "C", 45, 175, 100, 1333, 0) >>

\* rows whose 12 * xPts + 8 * FDR is negative: a player sent off often
CardedRows ==
    << PlayerRow("p1", "B", 40, 200, 0, 0, 2000),
       PlayerRow("p2", "B", 80, 200, 0, 0, 2000) >>

\* rows one of which names a team the fixture table does not hold
StrayRows ==
    << PlayerRow("p1", "A", 50, 125, 200, 700, 10),
       PlayerRow("p2", "Z", 50, 125, 200, 700, 10) >>

\* the watchlists: the goalkeeper, defender, midfielder and forward tables
Watchlists ==
    { <<PositionTable(PlainRows), PositionTable(TwinRows),
        PositionTable(PlainRows), PositionTable(CardedRows)>>,
      <<PositionTable(TwinRows), PositionTable(PlainRows),
        PositionTable(PlainRows), PositionTable(CardedRows)>>,
      <<PositionTable(CardedRows), PositionTable(PlainRows),
        PositionTable(PlainRows), PositionTable(CardedRows)>>,
      <<PositionTable(StrayRows), PositionTable(PlainRows),
        PositionTable(PlainRows), PositionTable(CardedRows)>> }

\* the fixture tables of the calculator: three teams over NumGW gameweeks
CalculatorFixtures ==
    { [rows |-> <<FixtureRow("A", Flat(1, NumGW)), FixtureRow("B", b),
                 FixtureRow("C", Flat(MaxRating, NumGW))>>, has_fdr |-> FALSE] :
        b \in { Cycle(0, NumGW), Alternate(NumGW) } }

(***************************************************************************)
(* The calculator: an AssetValueModel constructed with a watchlist, a      *)
(* fixture table and the training data, and calls of its four per-position *)
(* methods with the System's gameweek and chip gameweeks.                  *)
(***************************************************************************)
NoAssetCall == [op |-> "none", gw |-> 0, wc |-> 0, fh |-> 0, err |-> "none",
                ret |-> PositionTable(<<>>)]

\* the wildcard plans of the calculator's runs: none, the current gameweek
\* and the last one of ChipInputs, where the prompt accepts them
WildcardPlans(g) == { c \in {0, g, MaxChip} : ChipAccepted(g, c) }

\* the free-hit plans: none and the gameweek after the current one
FreeHitPlans(g) == { c \in {0, g + 1} : ChipAccepted(g, c) }

Init ==
    /\ gw \in GwInputs
    /\ wc_gw \in WildcardPlans(gw)
    /\ fh_gw \in FreeHitPlans(gw)
    /\ df \in CalculatorFixtures
    /\ fdr_call = NoCall
    /\ fdr_lookup = NoLookup
    /\ \E w \in Watchlists :
         /\ goalkeepers = w[1]
         /\ defenders = w[2]
         /\ midfielders = w[3]
         /\ forwards = w[4]
    /\ cs_gk_def = NewPredictor(TrainingXgc, TrainingDefensivePoints)
    /\ cs_mid = NewPredictor(TrainingXgc, TrainingCleanSheets)
    /\ avm_call = NoAssetCall
    /\ CsIdle
    /\ SysIdle
    /\ DefconIdle

\* what a per-position call leaves in avm_call: its arguments, how it ended
\* and the table it returned (none when it raised)
AssetCallRecord(kind, o) ==
    [op |-> kind, gw |-> gw, wc |-> wc_gw, fh |-> fh_gw, err |-> o.err,
     ret |-> IF o.err = "none" THEN o.table ELSE PositionTable(<<>>)]

\* what the call leaves of the aggregator's last lookup
LookupRecord(o) ==
    IF o.team = "" THEN NoLookup
    ELSE [op |-> "get_fdr_value_by_team", team |-> o.team,
          err |-> GetFdrValueByTeam(o.fdr.df, o.team).err,
          value |-> GetFdrValueByTeam(o.fdr.df, o.team).value]

\* the aggregator's part of a per-position call with outcome o
AggregatorAfter(o) ==
    /\ df' = o.fdr.df
    /\ fdr_call' = CallRecord(o.fdr, gw, wc_gw, fh_gw)
    /\ fdr_lookup' = LookupRecord(o)

\* get_asset_value_gk(gw, wc_gw, fh_gw)
GetAssetValueGk ==
    /\ \E o \in GetAssetValue("gk", goalkeepers, cs_gk_def, df, gw, wc_gw, fh_gw) :
          /\ goalkeepers' = o.table
          /\ cs_gk_def' = o.model
          /\ AggregatorAfter(o)
          /\ avm_call' = AssetCallRecord("gk", o)
    /\ UNCHANGED <<cs_vars, sys_vars, defcon_vars, gw, wc_gw, fh_gw, defenders, midfielders, forwards, cs_mid>>

\* get_asset_value_def(gw, wc_gw, fh_gw)
GetAssetValueDef ==
    /\ \E o \in GetAssetValue("def", defenders, cs_gk_def, df, gw, wc_gw, fh_gw) :
          /\ defenders' = o.table
          /\ cs_gk_def' = o.model
          /\ AggregatorAfter(o)
          /\ avm_call' = AssetCallRecord("def", o)
    /\ UNCHANGED <<cs_vars, sys_vars, defcon_vars, gw, wc_gw, fh_gw, goalkeepers, midfielders, forwards, cs_mid>>

\* get_asset_value_mid(gw, wc_gw, fh_gw)
GetAssetValueMid ==
    /\ \E o \in GetAssetValue("mid", midfielders, cs_mid, df, gw, wc_gw, fh_gw) :
          /\ midfielders' = o.table
          /\ cs_mid' = o.model
          /\ AggregatorAfter(o)
          /\ avm_call' = AssetCallRecord("mid", o)
    /\ UNCHANGED <<cs_vars, sys_vars, defcon_vars, gw, wc_gw, fh_gw, goalkeepers, defenders, forwards, cs_gk_def>>

\* get_asset_value_fwd(gw, wc_gw, fh_gw)
GetAssetValueFwd ==
    /\ \E o \in GetAssetValue("fwd", forwards, cs_mid, df, gw, wc_gw, fh_gw) :
          /\ forwards' = o.table
          /\ AggregatorAfter(o)
          /\ avm_call' = AssetCallRecord("fwd", o)
    /\ UNCHANGED <<cs_vars, sys_vars, defcon_vars, gw, wc_gw, fh_gw, goalkeepers, defenders, midfielders,
                   cs_gk_def, cs_mid>>

Next == GetAssetValueGk \/ GetAssetValueDef \/ GetAssetValueMid \/ GetAssetValueFwd

Spec == Init /\ [][Next]_vars

(***************************************************************************)
(* The predictors on their own: two CleanSheetPointsModel instances, each  *)
(* constructed with one of the training sets, and direct calls of predict  *)
(* and train_model on them.                                                *)
(***************************************************************************)
\* most runs of train_model on one instance
MaxFits == 3

\* the training sets: xGCp90 with either target column
TrainingSets ==
    { <<TrainingXgc, TrainingDefensivePoints>>, <<TrainingXgc, TrainingCleanSheets>> }

\* the xGCp90 values asked of predict, in 1/100
XgcInputs == {125, 200}

Instances == {"gk_def", "mid"}

Instance(name) == IF name = "gk_def" THEN cs_gk_def ELSE cs_mid

InitCs ==
    /\ \E a \in TrainingSets, b \in TrainingSets :
         /\ cs_gk_def = NewPredictor(a[1], a[2])
         /\ cs_mid = NewPredictor(b[1], b[2])
    /\ gw = 1
    /\ wc_gw = 0
    /\ fh_gw = 0
    /\ df = [rows |-> <<>>, has_fdr |-> FALSE]
    /\ fdr_call = NoCall
    /\ fdr_lookup = NoLookup
    /\ goalkeepers = PositionTable(<<>>)
    /\ defenders = PositionTable(<<>>)
    /\ midfielders = PositionTable(<<>>)
    /\ forwards = PositionTable(<<>>)
    /\ avm_call = NoAssetCall
    /\ CsIdle
    /\ SysIdle
    /\ DefconIdle

\* the instance of the name becomes m
InstanceBecomes(name, m) ==
    IF name = "gk_def"
    THEN cs_gk_def' = m /\ UNCHANGED cs_mid
    ELSE cs_mid' = m /\ UNCHANGED cs_gk_def

cs_frame == <<gw, wc_gw, fh_gw, df, fdr_call, fdr_lookup, goalkeepers, defenders,
              midfielders, forwards, avm_call, sys_vars, defcon_vars>>

\* predict(xgcp90) on one of the instances
CsPredict ==
    \E name \in Instances, x \in XgcInputs :
        /\ InstanceBecomes(name, Predict(Instance(name), x).model)
        /\ cs_call' = [op |-> "predict", inst |-> name, x |-> x,
                       value |-> Predict(Instance(name), x).value]
        /\ cs_returned' = cs_returned \cup
             { [inst |-> name, x |-> x, value |-> Predict(Instance(name), x).value,
                refitted |-> Predict(Instance(name), x).model.fits > 1] }
        /\ UNCHANGED <<cs_explicit, cs_frame>>

\* train_model() on one of the instances
CsTrainModel ==
    \E name \in Instances :
        /\ Instance(name).fits < MaxFits
        /\ InstanceBecomes(name, TrainModel(Instance(name)))
        /\ cs_call' = [op |-> "train_model", inst |-> name, x |-> 0, value |-> 0]
        /\ cs_explicit' = cs_explicit \cup {name}
        /\ UNCHANGED <<cs_returned, cs_frame>>

NextCs == CsPredict \/ CsTrainModel

SpecCs == InitCs /\ [][NextCs]_vars

(***************************************************************************)
(* The System (src/src/system.py): constructed with the gameweek, then     *)
(* run, get_fdr_data and get_assets_value called in any order.  The        *)
(* System's aggregator (sys_df) and the calculator's aggregator (df) are   *)
(* two FDRValueModel instances, each with a fixture table loaded for it.   *)
(***************************************************************************)
\* the fixture table load_fixtures_data returns
SystemFixtures ==
    [rows |-> <<FixtureRow("A", Flat(1, NumGW)), FixtureRow("B", Alternate(NumGW)),
               FixtureRow("C", Flat(MaxRating, NumGW))>>, has_fdr |-> FALSE]

\* the watchlist get_watchlist_data returns
SystemWatchlist ==
    <<PositionTable(PlainRows), PositionTable(PlainRows),
      PositionTable(PlainRows), PositionTable(CardedRows)>>

\* the show_gk, show_def, show_mid, show_forward arguments tried
ShowInputs == { <<TRUE, TRUE, TRUE, TRUE>>, <<FALSE, FALSE, FALSE, FALSE>> }

\* System.__init__
InitSystem ==
    /\ gw \in GwInputs
    /\ wc_gw = 0
    /\ fh_gw = 0
    /\ is_running = FALSE
    /\ sys_df = SystemFixtures
    /\ sys_call = NoSysCall
    /\ df = SystemFixtures
    /\ fdr_call = NoCall
    /\ fdr_lookup = NoLookup
    /\ goalkeepers = SystemWatchlist[1]
    /\ defenders = SystemWatchlist[2]
    /\ midfielders = SystemWatchlist[3]
    /\ forwards = SystemWatchlist[4]
    /\ cs_gk_def = NewPredictor(TrainingXgc, TrainingDefensivePoints)
    /\ cs_mid = NewPredictor(TrainingXgc, TrainingCleanSheets)
    /\ avm_call = NoAssetCall
    /\ CsIdle
    /\ DefconIdle

calculator_vars == <<df, fdr_call, fdr_lookup, goalkeepers, defenders, midfielders,
                     forwards, cs_gk_def, cs_mid, avm_call>>

\* System.run: both prompts answered with gameweeks get_chip_gw accepts
\* (it asks again until it is given one)
Run ==
    /\ \E wc \in WildcardPlans(gw), fh \in FreeHitPlans(gw) :
          /\ wc_gw' = wc
          /\ fh_gw' = fh
    /\ is_running' = TRUE
    /\ sys_call' = [op |-> "run", err |-> "none"]
    /\ UNCHANGED <<gw, sys_df, calculator_vars, cs_vars, defcon_vars>>

\* System.run with the input closed at the Free Hit prompt: input() raises
\* EOFError, which get_chip_gw does not catch, after line 89 has assigned wc_gw
RunInterrupted ==
    /\ \E wc \in WildcardPlans(gw) : wc_gw' = wc
    /\ sys_call' = [op |-> "run", err |-> "EOFError"]
    /\ UNCHANGED <<gw, fh_gw, is_running, sys_df, calculator_vars, cs_vars,
                   defcon_vars>>

\* what a System operation leaves in sys_call when it returns at its
\* "You need to run the system first." guard
NotRunning(op) == [op |-> op, err |-> "not running"]

\* get_fdr_data without the guard of lines 98-100
GetFdrDataUnguarded ==
    /\ \E o \in GetFdrValue(sys_df, gw, wc_gw, fh_gw) :
          /\ sys_df' = o.df
          /\ sys_call' = [op |-> "get_fdr_data", err |-> o.err,
                          gw |-> gw, wc |-> wc_gw, fh |-> fh_gw, cols |-> o.cols]
    /\ UNCHANGED <<gw, wc_gw, fh_gw, is_running, calculator_vars, cs_vars,
                   defcon_vars>>

\* System.get_fdr_data
GetFdrData ==
    /\ IF ~is_running
       THEN /\ sys_call' = NotRunning("get_fdr_data")
            /\ UNCHANGED sys_df
       ELSE \E o \in GetFdrValue(sys_df, gw, wc_gw, fh_gw) :
               /\ sys_df' = o.df
               /\ sys_call' = [op |-> "get_fdr_data", err |-> o.err,
                               gw |-> gw, wc |-> wc_gw, fh |-> fh_gw,
                               cols |-> o.cols]
    /\ UNCHANGED <<gw, wc_gw, fh_gw, is_running, calculator_vars, cs_vars,
                   defcon_vars>>

\* the calculator as the calls of get_assets_value find and leave it
CalculatorState ==
    [tables |-> <<goalkeepers, defenders, midfielders, forwards>>,
     gk_def |-> cs_gk_def, mid |-> cs_mid, d |-> df, acall |-> avm_call,
     fcall |-> fdr_call, lookup |-> fdr_lookup, err |-> "none"]

KindIndex(kind) ==
    CASE kind = "gk" -> 1 [] kind = "def" -> 2 [] kind = "mid" -> 3 [] kind = "fwd" -> 4

\* the calculator after the call with outcome o of the position's method
CalculatorAfterCall(kind, st, o) ==
    [tables |-> [st.tables EXCEPT ![KindIndex(kind)] = o.table],
     gk_def |-> IF kind \in {"gk", "def"} THEN o.model ELSE st.gk_def,
     mid |-> IF kind = "mid" THEN o.model ELSE st.mid,
     d |-> o.fdr.df,
     acall |-> AssetCallRecord(kind, o),
     fcall |-> CallRecordAfter(st.fcall, o.fdr, gw, wc_gw, fh_gw),
     lookup |-> LookupRecord(o),
     err |-> o.err]

\* one of lines 140, 145, 150, 155: the position's method called with the
\* System's gameweek and chip gameweeks
CalculatorAfterKind(kind, st) ==
    { CalculatorAfterCall(kind, st, o) :
        o \in GetAssetValue(kind, st.tables[KindIndex(kind)],
                            IF kind \in {"gk", "def"} THEN st.gk_def ELSE st.mid,
                            st.d, gw, wc_gw, fh_gw) }

\* the calls of the positions shown, in the order of lines 138-156; an
\* exception of one leaves get_assets_value, so the later ones are not made
RECURSIVE CalculatorAfterKinds(_, _)
CalculatorAfterKinds(kinds, sts) ==
    IF kinds = <<>> THEN sts
    ELSE CalculatorAfterKinds(Tail(kinds),
            UNION { IF st.err # "none" THEN {st}
                    ELSE CalculatorAfterKind(Head(kinds), st) : st \in sts })

\* the positions shown, in the order get_assets_value takes them
KindsShown(show) ==
    SelectSeq(<<"gk", "def", "mid", "fwd">>, LAMBDA kind : show[KindIndex(kind)])

\* System.get_assets_value(show_gk, show_def, show_mid, show_forward)
GetAssetsValue ==
    /\ IF ~is_running
       THEN /\ sys_call' = NotRunning("get_assets_value")
            /\ UNCHANGED calculator_vars
       ELSE \E show \in ShowInputs :
              \E st \in CalculatorAfterKinds(KindsShown(show), {CalculatorState}) :
                 /\ goalkeepers' = st.tables[1]
                 /\ defenders' = st.tables[2]
                 /\ midfielders' = st.tables[3]
                 /\ forwards' = st.tables[4]
                 /\ cs_gk_def' = st.gk_def
                 /\ cs_mid' = st.mid
                 /\ df' = st.d
                 /\ avm_call' = st.acall
                 /\ fdr_call' = st.fcall
                 /\ fdr_lookup' = st.lookup
                 /\ sys_call' = [op |-> "get_assets_value", err |-> st.err,
                                 show |-> show]
    /\ UNCHANGED <<gw, wc_gw, fh_gw, is_running, sys_df, cs_vars, defcon_vars>>

NextSystem == Run \/ RunInterrupted \/ GetFdrData \/ GetAssetsValue

SpecSystem == InitSystem /\ [][NextSystem]_vars

(***************************************************************************)
(* The defensive-contribution term on its own: the term of a position's    *)
(* expected-points formula computed for two defcon values.                 *)
(***************************************************************************)
\* the lower and the upper breakpoint of a position's formula, in 1/100
Low(kind) == IF kind = "def" THEN 500 ELSE 600

MidHi(kind) == IF kind = "def" THEN 1333 ELSE 1600

\* the value of the term above the upper breakpoint, in 1/1000000
Cap == 2000000

\* the defcon values tried for a position: the breakpoints, their neighbours
\* at 0.01 and values of each piece
DefconInputs(kind) ==
    { 0, Low(kind) \div 2, Low(kind) - 1, Low(kind), Low(kind) + 1,
      Low(kind) + 200, Low(kind) + 400, Low(kind) + 600,
      MidHi(kind) - 1, MidHi(kind), MidHi(kind) + 1, MidHi(kind) + 200 }

\* the term of the position's formula
DefconTerm(kind, d) ==
    IF kind = "def" THEN DefconTermDef(d) ELSE DefconTermMidFwd(d)

InitDefcon ==
    /\ \E kind \in {"def", "mid", "fwd"} :
         \E d1, d2 \in DefconInputs(kind) :
            /\ d1 < d2
            /\ defcon_in = [kind |-> kind, d1 |-> d1, d2 |-> d2]
    /\ defcon_out = <<>>
    /\ cs_gk_def = NewPredictor(TrainingXgc, TrainingDefensivePoints)
    /\ cs_mid = NewPredictor(TrainingXgc, TrainingCleanSheets)
    /\ gw = 1
    /\ wc_gw = 0
    /\ fh_gw = 0
    /\ df = [rows |-> <<>>, has_fdr |-> FALSE]
    /\ fdr_call = NoCall
    /\ fdr_lookup = NoLookup
    /\ goalkeepers = PositionTable(<<>>)
    /\ defenders = PositionTable(<<>>)
    /\ midfielders = PositionTable(<<>>)
    /\ forwards = PositionTable(<<>>)
    /\ avm_call = NoAssetCall
    /\ CsIdle
    /\ SysIdle

\* the term computed for both values
ComputeDefconTerms ==
    /\ defcon_out = <<>>
    /\ defcon_out' = <<DefconTerm(defcon_in.kind, defcon_in.d1),
                       DefconTerm(defcon_in.kind, defcon_in.d2)>>
    /\ UNCHANGED <<defcon_in, gw, wc_gw, fh_gw, df, fdr_call, fdr_lookup, avm_vars,
                   cs_vars, sys_vars>>

NextDefcon == ComputeDefconTerms

SpecDefcon == InitDefcon /\ [][NextDefcon]_vars

(***************************************************************************)
(* Properties of the aggregator, checked under SpecFdr.                    *)
(***************************************************************************)
\* the number of gameweek columns of the aggregator's table
NumColumns == Len(df.rows[1].gws)

TableTeams == { df.rows[i].team : i \in 1..Len(df.rows) }

\* the last call on the aggregator was a get_fdr_value call that completed
Computed ==
    fdr_call.op = "get_fdr_value" /\ fdr_call.err = "none" /\ fdr_lookup.op = "none"

\* the (team, rounded score) pairs a call on table d assigns
AssignedBy(d, g, wc, fh) ==
    LET r == FdrResults(d, g, wc, fh)
    IN  IF r.err # "none" THEN {}
        ELSE { <<d.rows[i].team, Round2Score(r.scores[i])>> : i \in 1..Len(d.rows) }

\* table d with the rating of row t at gameweek column k set to v
WithRating(d, t, k, v) == [d EXCEPT !.rows[t].gws[k] = v]

\* no change of one rating at a gameweek column of the set ks changes any
\* team's score under the arguments of the last call
RatingsIrrelevant(ks) ==
    \A t \in 1..Len(df.rows), k \in ks, v \in 1..MaxRating :
        AssignedBy(WithRating(df, t, k, v), fdr_call.gw, fdr_call.wc, fdr_call.fh)
            = fdr_call.assigned

\* the weight the no-wildcard branch applies at gameweek i of a window
\* that starts at g
WindowWeight(g, i) == IF i < g + 6 THEN LogWeight(i) ELSE LinWeight(i)

\* C1: in the no-wildcard branch with no free hit, for every current
\* gameweek whose ten-gameweek window fits the table, get_fdr_value completes
\* without error, the log argument is >= 2 over the first six gameweeks, the
\* linear weight is > 0 and below the smallest log weight over the last four,
\* and the weights do not increase across the window.
C1_WeightsDefinedPositiveDecreasing ==
    ( /\ fdr_call.op = "get_fdr_value"
      /\ fdr_call.wc = 0 /\ fdr_call.fh = 0
      /\ fdr_call.gw \in 1..(NumColumns - 9) )
    => LET g == fdr_call.gw
       IN  /\ fdr_call.err = "none"
           /\ \A i \in g..(g + 5) : LogArgument(i) >= 2
           /\ \A i \in (g + 6)..(g + 9) :
                 LinWeight(i) > 0 /\ LinWeight(i) < LogWeight(g + 5)
           /\ \A i \in g..(g + 8) : WindowWeight(g, i) >= WindowWeight(g, i + 1)

\* C2: a no-wildcard call either raises an error or reads ratings only from
\* columns lying both in 1..N and in the window [gw, gw+10); it never wraps
\* to the last columns and never reads past the last column.
C2_ReadsOnlyWindowColumns ==
    (fdr_call.op = "get_fdr_value" /\ fdr_call.wc = 0)
    => \/ fdr_call.err # "none"
       \/ fdr_call.cols \subseteq
             { c \in 1..NumColumns : fdr_call.gw <= c /\ c < fdr_call.gw + 10 }

\* C3: in the no-wildcard branch the scores depend only on the ratings of
\* the gameweeks gw..gw+9 other than the free-hit gameweek: changing a
\* rating at the free-hit gameweek or outside gw..gw+9 leaves every
\* team's score unchanged.
C3_OnlyWindowRatingsMatter ==
    (Computed /\ fdr_call.wc = 0)
    => RatingsIrrelevant({ k \in 1..NumColumns :
                             \/ k = fdr_call.fh
                             \/ k < fdr_call.gw
                             \/ k > fdr_call.gw + 9 })

\* C4: in the wildcard branch the sum is taken over exactly the gameweeks i
\* with gw <= i < wildcard_gw and i # freehit_gw, each weighted by a
\* logarithm whose argument is >= 2, and changing a rating at a gameweek
\* >= wildcard_gw or at the free-hit gameweek leaves every team's score
\* unchanged.
C4_WildcardWindow ==
    (Computed /\ fdr_call.wc # 0)
    => /\ fdr_call.cols =
             { i \in fdr_call.gw..(fdr_call.wc - 1) : i # fdr_call.fh }
       /\ \A i \in fdr_call.gw..(fdr_call.wc - 1) :
             WildcardArgument(i, fdr_call.wc) >= 2
       /\ RatingsIrrelevant({ k \in 1..NumColumns :
                                k >= fdr_call.wc \/ k = fdr_call.fh })

\* a completed wildcard-branch call whose window holds a gameweek, on a
\* table with ratings after the window that differ between teams
C4_Witness ==
    /\ Computed /\ fdr_call.wc # 0
    /\ fdr_call.cols # {}
    /\ fdr_call.fh \in fdr_call.gw..(fdr_call.wc - 1)
    /\ \E a, b \in fdr_call.assigned : a[2] # NaN /\ a[2] > b[2]

\* C5: for gw=1 with no chip and a table of exactly two teams with ten
\* gameweek columns, a team whose every rating is strictly lower than the
\* other team's rating of the same gameweek gets the strictly higher score.
C5_EasierFixturesScoreHigher ==
    ( /\ fdr_call.op = "get_fdr_value"
      /\ fdr_call.gw = 1 /\ fdr_call.wc = 0 /\ fdr_call.fh = 0
      /\ Len(df.rows) = 2 /\ NumColumns = 10 )
    => \A a, b \in 1..2 :
         (\A k \in 1..10 : df.rows[b].gws[k] < df.rows[a].gws[k])
         => /\ fdr_call.err = "none"
            /\ df.rows[a].fdr # NaN /\ df.rows[b].fdr # NaN
            /\ df.rows[b].fdr > df.rows[a].fdr

\* the scenario of C5 after the call, on a table whose easier row is not flat
C5_Witness ==
    /\ Computed
    /\ fdr_call.gw = 1 /\ fdr_call.wc = 0 /\ fdr_call.fh = 0
    /\ Len(df.rows) = 2 /\ NumColumns = 10
    /\ \E a, b \in 1..2 :
         /\ \A k \in 1..10 : df.rows[b].gws[k] < df.rows[a].gws[k]
         /\ \E k \in 1..10 : df.rows[b].gws[k] # df.rows[b].gws[1]

\* table d with its rows in the order p
Permuted(d, p) == [d EXCEPT !.rows = [i \in 1..Len(d.rows) |-> d.rows[p[i]]]]

\* C6: the team-to-score mapping does not depend on the order of the
\* table's rows: a call with the last call's arguments on any permutation
\* of the table (the order the last call's sort left included) assigns each
\* team the score the last call assigned it.
C6_RowOrderIndependent ==
    Computed
    => \A p \in Perms(Len(df.rows)) :
         AssignedBy(Permuted(df, p), fdr_call.gw, fdr_call.wc, fdr_call.fh)
             = fdr_call.assigned

\* a completed call that gave three teams three different scores and whose
\* sort changed the order of the rows
C6_Witness ==
    /\ Computed
    /\ Len(df.rows) = 3
    /\ df.rows[1].fdr > df.rows[2].fdr /\ df.rows[2].fdr > df.rows[3].fdr
    /\ df.rows[3].fdr # NaN
    /\ df.rows[1].team # "A"

\* C7: get_fdr_value_by_team returns the score the most recent completed
\* get_fdr_value call assigned to the team, and raises an error, returning
\* nothing, when get_fdr_value has never been run or the team is absent.
C7_LookupReturnsLastScoreOrRaises ==
    fdr_lookup.op = "get_fdr_value_by_team"
    => /\ fdr_call.op = "none" => fdr_lookup.err # "none"
       /\ fdr_lookup.team \notin TableTeams => fdr_lookup.err # "none"
       /\ fdr_lookup.err = "none"
            => <<fdr_lookup.team, fdr_lookup.value>> \in fdr_call.assigned

\* a lookup that returned the score of a team that is not in the first row,
\* after two calls that gave the team different scores
C7_Witness ==
    /\ fdr_lookup.op = "get_fdr_value_by_team" /\ fdr_lookup.err = "none"
    /\ fdr_lookup.value # NaN
    /\ fdr_lookup.team # df.rows[1].team
    /\ fdr_call.wc = 0 /\ fdr_call.fh = 0 /\ (wc_gw # 0 \/ fh_gw # 0)

(***************************************************************************)
(* Properties of the calculator, checked under Spec.                       *)
(***************************************************************************)
\* the four position tables, as the calculator stores them
PositionTables == <<goalkeepers, defenders, midfielders, forwards>>

\* the stored table of the position the last call was about
TableOfCall ==
    CASE avm_call.op = "gk" -> goalkeepers
      [] avm_call.op = "def" -> defenders
      [] avm_call.op = "mid" -> midfielders
      [] avm_call.op = "fwd" -> forwards
      [] OTHER -> PositionTable(<<>>)

\* the last per-position call completed
Returned == avm_call.op # "none" /\ avm_call.err = "none"

\* C8: after a per-position call that completed, every entry of the 'xPts',
\* 'FDR value' and 'value' columns of the stored position table and of the
\* returned table is rounded to 2 decimal places: rounding either table to 2
\* decimals changes nothing.
C8_ColumnsRoundedTo2Decimals ==
    Returned =>
        /\ TableOfCall = RoundedTable(TableOfCall)
        /\ avm_call.ret = RoundedTable(avm_call.ret)

\* rows i and j of the table t are identical except for price (and the name
\* of the player), row i being the cheaper, and their value is a number
CheaperTwin(t, i, j) ==
    /\ t.rows[i].price > 0
    /\ t.rows[i].price < t.rows[j].price
    /\ [t.rows[i] EXCEPT !.price = 0, !.player = "", !.value = 0]
         = [t.rows[j] EXCEPT !.price = 0, !.player = "", !.value = 0]
    /\ ~IsNaN(t.rows[i].value)

\* the pairs of rows of a valued position table that differ in price only
CheaperTwins ==
    { <<k, i, j>> \in (1..4) \X (1..3) \X (1..3) :
        /\ PositionTables[k].has_value
        /\ i <= Len(PositionTables[k].rows)
        /\ j <= Len(PositionTables[k].rows)
        /\ CheaperTwin(PositionTables[k], i, j) }

RowNumerator(row) == Numerator(row.xpts, row.fdr)

\* C9 as stated: of two player rows identical except for price, the cheaper
\* one always has the strictly higher composite value, whatever the sign of
\* 12 * xPts + 8 * FDR value.
C9_CheaperAlwaysStrictlyHigher ==
    \A w \in CheaperTwins :
        PositionTables[w[1]].rows[w[2]].value > PositionTables[w[1]].rows[w[3]].value

\* C9, amended: of two player rows identical except for price, the cheaper
\* one has the strictly higher composite value when 12 * xPts + 8 * FDR value
\* is positive, the same value when it is zero and the strictly lower value
\* when it is negative.
C9_CheaperHigherBySignOfNumerator ==
    \A w \in CheaperTwins :
        LET a == PositionTables[w[1]].rows[w[2]]
            b == PositionTables[w[1]].rows[w[3]]
        IN  /\ RowNumerator(a) > 0 => a.value > b.value
            /\ RowNumerator(a) = 0 => a.value = b.value
            /\ RowNumerator(a) < 0 => a.value < b.value

\* a goalkeeper call has valued two keepers identical except for price, 4.0
\* and 8.0, with a positive 12 * xPts + 8 * FDR value, and a forward call two
\* forwards with a negative one
C9_Witness ==
    /\ \E w \in CheaperTwins :
          /\ w[1] = 1
          /\ goalkeepers.rows[w[2]].price = 40
          /\ goalkeepers.rows[w[3]].price = 80
          /\ RowNumerator(goalkeepers.rows[w[2]]) > 0
    /\ \E w \in CheaperTwins :
          /\ w[1] = 4
          /\ RowNumerator(forwards.rows[w[2]]) < 0

\* a per-position call that completes on a table that already holds the
\* three columns leaves the table as it was and returns it
SecondCallSame(kind, t) ==
    (avm_call'.op = kind /\ avm_call'.err = "none" /\ t.has_value)
        => avm_call'.ret = t

\* C10: a per-position call is idempotent: called again on the same
\* AssetValueModel with the same (gw, wc_gw, fh_gw), it returns the table the
\* earlier call returned (the stored table, which the earlier call left).
C10_SecondCallReturnsSameTable ==
    [][ /\ SecondCallSame("gk", goalkeepers)
        /\ SecondCallSame("def", defenders)
        /\ SecondCallSame("mid", midfielders)
        /\ SecondCallSame("fwd", forwards) ]_vars

\* the rows of a table, whatever their order
RowSet(t) == { t.rows[i] : i \in 1..Len(t.rows) }

\* no two rows of the table have the same value
NoTie(t) ==
    \A i, j \in 1..Len(t.rows) : i # j => t.rows[i].value # t.rows[j].value

SecondCallSameRows(kind, t) ==
    (avm_call'.op = kind /\ avm_call'.err = "none" /\ t.has_value)
        => /\ RowSet(avm_call'.ret) = RowSet(t)
           /\ NoTie(t) => avm_call'.ret = t

\* what holds of a second call: it returns the same rows, each with its own
\* player's values, and in the same order when no two rows tie in value
SecondCallSameUpToTies ==
    [][ /\ SecondCallSameRows("gk", goalkeepers)
        /\ SecondCallSameRows("def", defenders)
        /\ SecondCallSameRows("mid", midfielders)
        /\ SecondCallSameRows("fwd", forwards) ]_vars

\* C11: a per-position call in which computing a row fails propagates the
\* error and leaves every position table exactly as it was before the call:
\* no column added or overwritten, no row dropped, the row order unchanged.
C11_FailedCallLeavesTables ==
    [][ avm_call'.err # "none" => PositionTables' = PositionTables ]_vars

\* the predict calls made directly on the instance of the name
PredictsOn(name) == { r \in cs_returned : r.inst = name }

\* the instance of the name is where lazy training leaves it: untrained and
\* never fitted before its first call, trained and fitted exactly once after
\* any number of predict calls with no train_model call, trained after any call
LazyTrainedOnce(name) ==
    /\ Instance(name).is_trained <=> Instance(name).fits >= 1
    /\ (PredictsOn(name) = {} /\ name \notin cs_explicit)
         => ~Instance(name).is_trained
    /\ (PredictsOn(name) # {} \/ name \in cs_explicit)
         => Instance(name).is_trained
    /\ (PredictsOn(name) # {} /\ name \notin cs_explicit)
         => Instance(name).fits = 1

\* the value the last predict returned is the prediction of the fitted model
\* of its instance
LastPredictOfFitted ==
    cs_call.op = "predict"
        => cs_call.value = PredictTrained(Instance(cs_call.inst), cs_call.x)

\* C12: CleanSheetPointsModel is a one-way Untrained -> Trained machine with
\* at-most-once lazy training: over predict calls alone train_model runs
\* exactly once, in the first predict and before its value is computed;
\* is_trained holds after any predict or train_model call and is never reset.
C12_LazyTrainingOnceOneWay ==
    /\ [](\A name \in Instances : LazyTrainedOnce(name))
    /\ []LastPredictOfFitted
    /\ [][\A name \in Instances :
             Instance(name).is_trained => Instance(name)'.is_trained]_vars

\* predict was called on the gk_def instance with every input, train_model
\* never directly: the instance is trained and was fitted once
C12_Witness ==
    /\ { r.x : r \in PredictsOn("gk_def") } = XgcInputs
    /\ "gk_def" \notin cs_explicit
    /\ cs_gk_def.is_trained
    /\ cs_gk_def.fits = 1
    /\ cs_call.op = "predict"

\* the training data the instance of the name was constructed with
DataOf(name) == <<Instance(name).x_data, Instance(name).y_data>>

FloatGeq(a, b) == ~IsNaN(a) /\ ~IsNaN(b) /\ a >= b

\* every row of the table has a 'value' >= that of the row after it
SortedDescending(t) ==
    \A i \in 1..(Len(t.rows) - 1) : FloatGeq(t.rows[i].value, t.rows[i + 1].value)

\* the player rows of a table as they were loaded, without the three columns
\* the calls write
LoadedRows(t) ==
    { [t.rows[i] EXCEPT !.xpts = 0, !.fdr = 0, !.value = 0] : i \in 1..Len(t.rows) }

\* the position table of a kind
TableOf(kind) ==
    CASE kind = "gk" -> goalkeepers
      [] kind = "def" -> defenders
      [] kind = "mid" -> midfielders
      [] kind = "fwd" -> forwards

\* a call that completes returns the player rows of the table it was given
ReturnsGivenRows ==
    \A kind \in {"gk", "def", "mid", "fwd"} :
        (avm_call'.op = kind /\ avm_call'.err = "none")
            => /\ LoadedRows(avm_call'.ret) = LoadedRows(TableOf(kind))
               /\ Len(avm_call'.ret.rows) = Len(TableOf(kind).rows)

\* C14: after a per-position call, the stored position table and the returned
\* table are sorted descending by composite value (the 'value' of every row
\* is >= that of the row after it) and the returned table holds exactly the
\* player rows of the input table.
C14_SortedDescendingSameRows ==
    /\ [](Returned => SortedDescending(TableOfCall) /\ SortedDescending(avm_call.ret))
    /\ [][ReturnsGivenRows]_vars

\* the values of the table are numbers
NumericValues(t) == \A i \in 1..Len(t.rows) : ~IsNaN(t.rows[i].value)

\* what holds of a call that completes: the player rows are those given, and
\* the tables are sorted descending when their values are numbers
SortedWhereNumeric ==
    /\ []((Returned /\ NumericValues(avm_call.ret))
            => SortedDescending(TableOfCall) /\ SortedDescending(avm_call.ret))
    /\ [][ReturnsGivenRows]_vars

\* the two terms were computed
TermsComputed == defcon_out # <<>>

\* the term is continuous at the lower breakpoint: from 0.01 below it to it
\* the term grows by the 0.00001 of the slope 1/1000, within 0.000001
ContinuousAtLow ==
    (defcon_in.d1 = Low(defcon_in.kind) - 1 /\ defcon_in.d2 = Low(defcon_in.kind))
        => /\ defcon_out[2] - defcon_out[1] <= 10 + 1
           /\ defcon_out[2] - defcon_out[1] >= 0

\* the term at d is not above the cap and not below it by more than 0.000001
AtCap(term) == term <= Cap /\ Cap - term <= 1

\* the term at the upper breakpoint is the cap
ContinuousAtMidHi ==
    /\ defcon_in.d1 = MidHi(defcon_in.kind) => AtCap(defcon_out[1])
    /\ defcon_in.d2 = MidHi(defcon_in.kind) => AtCap(defcon_out[2])

\* the term does not decrease up to the upper breakpoint and stays the cap
\* above it
MonotoneThenConstant ==
    /\ defcon_in.d2 <= MidHi(defcon_in.kind) => defcon_out[1] <= defcon_out[2]
    /\ defcon_in.d2 > MidHi(defcon_in.kind) => defcon_out[2] = Cap
    /\ defcon_out[1] <= defcon_out[2]

\* C15: the defensive-contribution term of the defender, midfielder and
\* forward formulas is continuous at d = low and at d = mid_hi, non-decreasing
\* in d up to the cap and constant after it, for both parameter sets; its
\* value at d = mid_hi does not exceed the cap 2 and is not below it by more
\* than floating tolerance.
C15_DefconTermContinuousMonotone ==
    TermsComputed => ContinuousAtLow /\ ContinuousAtMidHi /\ MonotoneThenConstant

\* what holds of the term: it is continuous at d = low, non-decreasing up to
\* d = mid_hi and the cap above it; at d = mid_hi the defender's term is
\* 2.000048, above the cap, and the midfielder's and forward's 1.987117,
\* below it by 0.012883
DefconTermAsComputed ==
    TermsComputed =>
        /\ ContinuousAtLow
        /\ defcon_in.d2 <= MidHi(defcon_in.kind) => defcon_out[1] <= defcon_out[2]
        /\ defcon_in.d2 > MidHi(defcon_in.kind) => defcon_out[2] = Cap
        /\ defcon_in.d2 = MidHi(defcon_in.kind)
             => defcon_out[2] = IF defcon_in.kind = "def" THEN Cap + 48
                                ELSE Cap - 12883

\* get_assets_value was the last operation, and its calls completed
AssetsValued ==
    /\ sys_call.op = "get_assets_value"
    /\ sys_call.err = "none"
    /\ sys_call.show = <<TRUE, TRUE, TRUE, TRUE>>

\* the score, in 1/1000, that the recomputation of the fixture table for the
\* System's gameweek and chip gameweeks attaches to the team
FreshScore(team) ==
    LET pair == CHOOSE q \in AssignedBy(SystemFixtures, gw, wc_gw, fh_gw) : q[1] = team
    IN  FdrInMilli(pair[2])

\* every row of the table holds the fresh score of its team
FreshScores(t) ==
    /\ t.has_value
    /\ \A i \in 1..Len(t.rows) : t.rows[i].fdr = FreshScore(t.rows[i].team)

\* the (team, score) pairs of an aggregator's table
ScoresOf(d) == { <<d.rows[i].team, d.rows[i].fdr>> : i \in 1..Len(d.rows) }

\* C16: every FDR score the calculator reads for a player row comes from its
\* own aggregator's table recomputed for the requested triple: over calls
\* with varying triples no lookup fails because the compute was not run
\* (KeyError), and after the calls every row's 'FDR value' is the score of its
\* team for the triple of the call, not a score of an earlier triple or of
\* the System's aggregator.
C16_ScoresOfRequestedTriple ==
    /\ avm_call.err # "KeyError"
    /\ fdr_lookup.err # "KeyError"
    /\ AssetsValued =>
         /\ \A k \in 1..4 : FreshScores(PositionTables[k])
         /\ avm_call.gw = gw /\ avm_call.wc = wc_gw /\ avm_call.fh = fh_gw
         /\ fdr_call.gw = gw /\ fdr_call.wc = wc_gw /\ fdr_call.fh = fh_gw

\* get_assets_value has completed for a triple while the System's aggregator
\* holds the scores of an earlier triple, which differ from those of the
\* calculator's aggregator
C16_Witness ==
    /\ AssetsValued
    /\ sys_df.has_fdr
    /\ df.has_fdr
    /\ ScoresOf(sys_df) # ScoresOf(df)
    /\ wc_gw # 0
    /\ \A k \in 1..4 : PositionTables[k].has_value

\* the gameweeks the wildcard branch sums over (lines 64-66)
WildcardWindow(g, wc, fh) == { i \in g..(wc - 1) : i # fh }

\* get_fdr_data was the last operation, and completed
FdrDataShown == sys_call.op = "get_fdr_data" /\ sys_call.err = "none"

\* C17: for every chip plan System.get_chip_gw accepts with a non-zero
\* Wildcard gameweek, the wildcard window {i : gw <= i < wc_gw, i # fh_gw}
\* holds at least one gameweek, so the aggregation reads at least one rating
\* and its z-scores are not the NaN of a zero standard deviation.
C17_AcceptedWildcardWindowNonEmpty ==
    /\ (is_running /\ wc_gw # 0) => WildcardWindow(gw, wc_gw, fh_gw) # {}
    /\ (FdrDataShown /\ wc_gw # 0)
         => /\ sys_call.cols # {}
            /\ \A q \in ScoresOf(sys_df) : ~IsNaN(q[2])

\* what holds: a non-zero Wildcard gameweek is accepted when it is the current
\* gameweek or later, and the window is empty exactly when it is the current
\* one or the Free Hit takes the only gameweek before it; the scores are NaN
\* exactly when the window is empty
WindowEmptyWhenWildcardNow ==
    /\ (is_running /\ wc_gw # 0) => wc_gw >= gw /\ gw >= 1
    /\ (is_running /\ wc_gw # 0)
         => (WildcardWindow(gw, wc_gw, fh_gw) = {}
               <=> (wc_gw = gw \/ (wc_gw = gw + 1 /\ fh_gw = gw)))
    /\ (FdrDataShown /\ wc_gw # 0)
         => ((\A q \in ScoresOf(sys_df) : IsNaN(q[2]))
               <=> WildcardWindow(gw, wc_gw, fh_gw) = {})

\* what the models compute: the two aggregators' tables, the position tables
\* and the predictors
ModelState ==
    <<sys_df, df, goalkeepers, defenders, midfielders, forwards, cs_gk_def, cs_mid>>

\* C18: get_fdr_data and get_assets_value compute nothing (the System's and
\* the calculator's aggregator tables, the position tables and the predictors
\* stay as they are) unless run() has completed both chip prompts; is_running
\* starts false, becomes true only at the end of a run() that completed, and
\* is never set back to false.
C18_NoComputationBeforeRun ==
    /\ ~is_running
    /\ [][ModelState' # ModelState => is_running]_vars
    /\ [][(~is_running /\ sys_call'.op \in {"get_fdr_data", "get_assets_value"})
            => (ModelState' = ModelState /\ sys_call'.err = "not running")]_vars
    /\ [][is_running => is_running']_vars
    /\ [][(~is_running /\ is_running')
            => (sys_call'.op = "run" /\ sys_call'.err = "none")]_vars

\* run() was left at the Free Hit prompt with the Wildcard gameweek assigned,
\* and get_assets_value, called next, returned at its guard with nothing
\* computed
C18_Witness ==
    /\ ~is_running
    /\ wc_gw # 0
    /\ sys_call = NotRunning("get_assets_value")
    /\ ModelState = <<SystemFixtures, SystemFixtures, SystemWatchlist[1],
                      SystemWatchlist[2], SystemWatchlist[3], SystemWatchlist[4],
                      NewPredictor(TrainingXgc, TrainingDefensivePoints),
                      NewPredictor(TrainingXgc, TrainingCleanSheets)>>

\* a goalkeeper call has raised IndexError at the lookup of the team "Z",
\* which the fixture table does not hold, after the row before it was
\* computed, and the goalkeeper table is the one the calculator was
\* constructed with
C11_Witness ==
    /\ avm_call.op = "gk"
    /\ avm_call.err = "IndexError"
    /\ fdr_lookup.team = "Z"
    /\ fdr_lookup.err = "IndexError"
    /\ Len(goalkeepers.rows) = 2
    /\ goalkeepers.rows[2].team = "Z"
    /\ goalkeepers = PositionTable(StrayRows)

====
